---------------------------- MODULE Spec2Model ----------------------------
(***************************************************************************)
(* Model of the central-agent gateway of bodhi                             *)
(* (src/services/central-agent/main.py): the correlation table             *)
(* _state["pending_responses"], the bus subscriber _redis_subscriber, the  *)
(* HTTP handler handle_input and the WebSocket handler ws_chat.            *)
(*                                                                         *)
(* Time is counted in whole seconds.  Every asyncio.wait_for of the code   *)
(* is a timed wait: the waiting task counts the seconds it has waited and  *)
(* the clock cannot pass a deadline without the timeout being taken.       *)
(***************************************************************************)
EXTENDS Integers, Sequences, FiniteSets, TLC

(***************************************************************************)
(* Program constants                                                       *)
(***************************************************************************)
RESPONSE_TIMEOUT == 5

MEMORY_RETRIEVE_TIMEOUT == 1

PUBLISH_TIMEOUT == 2

(***************************************************************************)
(* Bounds of the model                                                     *)
(***************************************************************************)
\* number of requests the handlers may start in one behaviour
MaxRequests == 2

\* the request ids in use: uuid4() values and client-supplied ids
RequestIds == {"r1", "r2"}

\* one HTTP handler task and two WebSocket connections
HttpTasks == {"h1"}

WsTasks == {"w1", "w2", "w3"}

Tasks == HttpTasks \cup WsTasks

SessionIds == {"s1", "s2"}

(***************************************************************************)
(* Python values carried by a future or a field of InputResponse           *)
(***************************************************************************)
PyNone == [t |-> "none", v |-> ""]

PyStr(s) == [t |-> "str", v |-> s]

PyInt(s) == [t |-> "int", v |-> s]

(***************************************************************************)
(* json.loads / json.dumps over the message bodies of the model            *)
(***************************************************************************)
\* the bodies (message["data"]) the bus may carry
Payloads ==
    { "not-json",
      "{\"request_id\": \"r2\", \"response\": \"hi\"}",
      "{\"intent\":\"greeting\"}",
      "{\"response\": null}",
      "{\"response\": 42}",
      "[1]" }

\* json.loads(data): ok = FALSE when it raises; kind is the Python type of
\* the value; fields are the keys of a dict
json_loads(data) ==
    CASE data = "{\"request_id\": \"r2\", \"response\": \"hi\"}" ->
           [ok |-> TRUE, kind |-> "dict",
            fields |-> [request_id |-> PyStr("r2"), response |-> PyStr("hi")]]
      [] data = "{\"intent\":\"greeting\"}" ->
           [ok |-> TRUE, kind |-> "dict", fields |-> [intent |-> PyStr("greeting")]]
      [] data = "{\"response\": null}" ->
           [ok |-> TRUE, kind |-> "dict", fields |-> [response |-> PyNone]]
      [] data = "{\"response\": 42}" ->
           [ok |-> TRUE, kind |-> "dict", fields |-> [response |-> PyInt("42")]]
      [] data = "[1]" ->
           [ok |-> TRUE, kind |-> "list", fields |-> <<>>]
      [] OTHER ->
           [ok |-> FALSE, kind |-> "error", fields |-> <<>>]

\* json.dumps(payload) of a parsed dict: default separators (", " and ": ")
json_dumps(payload) ==
    CASE payload.fields = [request_id |-> PyStr("r2"), response |-> PyStr("hi")] ->
           "{\"request_id\": \"r2\", \"response\": \"hi\"}"
      [] payload.fields = [intent |-> PyStr("greeting")] -> "{\"intent\": \"greeting\"}"
      [] payload.fields = [response |-> PyNone] -> "{\"response\": null}"
      [] payload.fields = [response |-> PyInt("42")] -> "{\"response\": 42}"
      [] OTHER -> "[1]"


(***************************************************************************)
(* Bus messages yielded by pubsub.listen().  A channel is the sequence of  *)
(* its dot-separated segments; a missing key of the message dict is a      *)
(* missing field of the record.                                            *)
(***************************************************************************)
ReplyChannel(r) == <<"language", "response", r>>

EmotionChannel == <<"emotion", "state_changed">>

MemoryChannel == <<"memory", "stored">>

Messages ==
    { [type |-> "subscribe", channel |-> EmotionChannel, data |-> "1"],
      [type |-> "pmessage"],
      [type |-> "pmessage", channel |-> ReplyChannel("r1")],
      [type |-> "message", channel |-> MemoryChannel, data |-> "{\"intent\":\"greeting\"}"] }
    \cup { [type |-> "pmessage", channel |-> ReplyChannel(r), data |-> d] :
             r \in RequestIds, d \in Payloads }
    \cup { [type |-> "message", channel |-> EmotionChannel, data |-> d] :
             d \in {"not-json", "[1]", "{\"intent\":\"greeting\"}"} }

\* the loop variable `message` while no message is being handled
NoMessage == [type |-> "none"]

\* channel.startswith("language.response.")
startswith_language_response(channel) ==
    Len(channel) >= 3 /\ channel[1] = "language" /\ channel[2] = "response"

\* line 123: channel[len("language.response."):]
request_id_of_mut_body(m) ==
    LET payload == json_loads(m.data)
    IN  IF payload.ok /\ payload.kind = "dict"
           /\ "request_id" \in DOMAIN payload.fields
        THEN payload.fields["request_id"].v
        ELSE m.channel[3]

request_id_of(m) == m.channel[3]

\* lines 124-128: the text a reply body resolves the slot with
response_text_mut_drop_default(data) ==
    LET payload == json_loads(data)
    IN  IF payload.ok /\ payload.kind = "dict"
        THEN IF "response" \in DOMAIN payload.fields
             THEN payload.fields["response"]
             ELSE PyNone
        ELSE PyStr(data)

response_text(data) ==
    LET payload == json_loads(data)
    IN  IF payload.ok /\ payload.kind = "dict"
        THEN IF "response" \in DOMAIN payload.fields
             THEN payload.fields["response"]
             ELSE PyStr(json_dumps(payload))
        ELSE PyStr(data)

(***************************************************************************)
(* State                                                                   *)
(***************************************************************************)
VARIABLES
    redis,              \* _state["redis"] is set (the bus connection exists)
    pending_responses,  \* _state["pending_responses"]: request id -> future,
                        \*   a future being named by the task that created it
    future,             \* per task: the asyncio.Future of its current request
    pc,                 \* per task: position of handle_input / ws_chat
    request_id,         \* per task: local request_id
    body,               \* per task: text and session_id of the current request
    memory_context,     \* per task: local memory_context (lines 295, 387)
    waited,             \* per task: seconds spent in the current wait_for
    result,             \* per HTTP task: what handle_input returned or raised
    sent,               \* per connection: messages sent by ws_chat for the
                        \*   inbound message it is handling
    ws_clients,         \* _state["ws_clients"]: session id -> set of sockets
    sub,                \* _redis_subscriber: position and _broadcast_to_ws locals
    message,            \* _redis_subscriber: the message being handled
    error_logged,       \* _redis_subscriber: line 152 has logged an error
    nreq,               \* number of requests started
    latency,            \* per HTTP task: time.perf_counter() - start, in seconds
    raw                 \* per connection: the inbound message read at line 358

\* the state of _heartbeat_watcher
VARIABLES
    active_agents,      \* _state["active_agents"]: the membership set
    agent_last_seen,    \* _state["agent_last_seen"]: worker -> timestamp
    stale_removed,      \* the workers logged as agent_stale_removed (line 175)
                        \*   while the last message was handled
    now                 \* time.time(), in seconds

\* the state of _run_consolidation of the memory-manager instances and of
\* the stores they share
VARIABLES
    lock,               \* the redis key lock:consolidation: absent, or held;
                        \*   a held lock is named by the sweep whose SET made it
    working,            \* the redis keys working_memory:*: key -> entry
    episodic,           \* per entry: the importances of its rows of
                        \*   memory_type 'episodic'
    semantic,           \* per entry: the importances of its points of
                        \*   memory_type 'semantic'
    sweep,              \* per invocation of _run_consolidation: position,
                        \*   the keys left to handle, the key being handled
    calls,              \* per invocation: the store calls it has issued,
                        \*   as <<operation, key, outcome>>
    nsweeps             \* number of invocations made again

gateway_vars == <<redis, pending_responses, future, pc, request_id, body,
                  memory_context, waited, result, sent, ws_clients, sub,
                  message, error_logged, nreq, latency, raw>>

tracker_vars == <<active_agents, agent_last_seen, stale_removed, now>>

sweeper_vars == <<lock, working, episodic, semantic, sweep, calls, nsweeps>>

vars == <<gateway_vars, tracker_vars, sweeper_vars>>

\* texts are described by their lengths: leading blanks, core, trailing blanks
Text(lead, core, trail) == [lead |-> lead, core |-> core, trail |-> trail]

\* text.strip()
strip(text) == Text(0, text.core, 0)

\* len(text)
len(text) == text.lead + text.core + text.trail

NoId == ""

NoBody == [text |-> Text(0, 0, 0), session_id |-> ""]

NoFuture == [state |-> "none", result |-> PyNone]

NoResult == [kind |-> "none", request_id |-> NoId, response |-> PyNone,
             error |-> PyNone]

(***************************************************************************)
(* The correlation table and its futures                                   *)
(***************************************************************************)
\* loop.create_future()
create_future == [state |-> "pending", result |-> PyNone]

\* future.set_result(value)
set_result(fut, value) == [state |-> "done", result |-> value]

\* future.cancel(), as asyncio.wait_for does to the awaited future on timeout
cancel(fut) == [state |-> "cancelled", result |-> PyNone]

\* future.done()
done(fut) == fut.state \in {"done", "cancelled"}

\* _state["pending_responses"][rid] = future   (lines 292, 380)
register(table, rid, t) ==
    [r \in (DOMAIN table) \cup {rid} |-> IF r = rid THEN t ELSE table[r]]

\* _state["pending_responses"].pop(rid, None)  (lines 331, 403, 425)
pop_mut_keep(table, rid) == table

pop(table, rid) == [r \in (DOMAIN table) \ {rid} |-> table[r]]

\* lines 129-131: future = pending_responses.get(rid);
\*                if future and not future.done(): future.set_result(text)
resolve_mut_overwrite(futs, table, rid, value) ==
    IF rid \in DOMAIN table
    THEN [futs EXCEPT ![table[rid]] = set_result(@, value)]
    ELSE futs

resolve(futs, table, rid, value) ==
    IF rid \in DOMAIN table /\ ~done(futs[table[rid]])
    THEN [futs EXCEPT ![table[rid]] = set_result(@, value)]
    ELSE futs

\* str(uuid.uuid4()): an id that nothing in the process holds
uuid4(rid) ==
    /\ rid \in RequestIds
    /\ rid \notin DOMAIN pending_responses
    /\ \A t \in Tasks : request_id[t] # rid

(***************************************************************************)
(* InputResponse (lines 55-58) and the outcomes of handle_input            *)
(***************************************************************************)
\* InputResponse(request_id=rid, response=value): pydantic accepts str | None
\* and raises ValidationError for anything else, which line 326 catches
InputResponse_response(rid, value) ==
    IF value.t \in {"str", "none"}
    THEN [kind |-> "returned", request_id |-> rid, response |-> value,
          error |-> PyNone]
    ELSE [kind |-> "returned", request_id |-> rid, response |-> PyNone,
          error |-> PyStr("internal error")]

\* InputResponse(request_id=rid, error=text)
InputResponse_error_mut_response(rid, text) ==
    [kind |-> "returned", request_id |-> rid, response |-> PyStr(text),
     error |-> PyNone]

InputResponse_error(rid, text) ==
    [kind |-> "returned", request_id |-> rid, response |-> PyNone,
     error |-> PyStr(text)]

\* raise HTTPException(status_code=503, detail="Redis unavailable")
\* lines 287 and 372: `not _state["redis"]`: there is no bus connection
unavailable_mut_never(bus) == FALSE

unavailable(bus) == ~bus

HTTP503 == [kind |-> "http503", request_id |-> NoId, response |-> PyNone,
            error |-> PyNone]

(***************************************************************************)
(* _fetch_memory_context (lines 61-79)                                     *)
(***************************************************************************)
\* the hit lists the memory service may answer with: contents, "" when the
\* hit has no content
HitLists == { <<>>, <<"", "m1">> }

FetchOutcomes == {"no_client", "ok", "non200", "exception", "timeout"}

\* [h["content"] for h in hits if h.get("content")]
RECURSIVE contents(_)
contents(hits) ==
    IF hits = <<>> THEN <<>>
    ELSE IF Head(hits) = "" THEN contents(Tail(hits))
         ELSE <<Head(hits)>> \o contents(Tail(hits))

\* lines 63-79: the contents of the hits on a 200 answer, [] otherwise
fetch_memory_context_mut_any_status(outcome, hits) ==
    IF outcome \in {"ok", "non200"} THEN contents(hits) ELSE <<>>

fetch_memory_context(outcome, hits) ==
    IF outcome = "ok" THEN contents(hits) ELSE <<>>

(***************************************************************************)
(* The connection registry _state["ws_clients"]                            *)
(***************************************************************************)
\* lines 351-353: create the session's set on first connect, add the socket
ws_connect(clients, sid, w) ==
    [s \in (DOMAIN clients) \cup {sid} |->
        IF s = sid
        THEN (IF sid \in DOMAIN clients THEN clients[sid] ELSE {}) \cup {w}
        ELSE clients[s]]

\* lines 433-435: discard the socket, drop the session key when its set is
\* empty (or absent)
ws_disconnect_mut_pop_session(clients, sid, w) ==
    [s \in (DOMAIN clients) \ {sid} |-> clients[s]]

ws_disconnect(clients, sid, w) ==
    LET discarded == [s \in DOMAIN clients |->
                        IF s = sid THEN clients[s] \ {w} ELSE clients[s]]
    IN  IF sid \in DOMAIN discarded /\ discarded[sid] # {}
        THEN discarded
        ELSE [s \in (DOMAIN discarded) \ {sid} |-> discarded[s]]

\* lines 101-102: discard every dead socket from its session's set
discard_dead_mut_keep(clients, dead) == clients

discard_dead(clients, dead) ==
    [s \in DOMAIN clients |-> clients[s] \ {d[2] : d \in {e \in dead : e[1] = s}}]

\* lines 86-91 with session_id = None: the sockets of every session
all_sockets(clients) == UNION {clients[s] : s \in DOMAIN clients}

\* lines 86-91: the targets of a broadcast: the sockets of the session
\* when session_id is a non-empty string that is a key of the registry,
\* the sockets of every session when it is None, nothing otherwise
broadcast_targets_mut_everyone(clients, session_id) == all_sockets(clients)

broadcast_targets(clients, session_id) ==
    IF session_id.t = "str" /\ session_id.v # "" /\ session_id.v \in DOMAIN clients
    THEN clients[session_id.v]
    ELSE IF session_id = PyNone
    THEN all_sockets(clients)
    ELSE {}

\* a message sent with ws.send_json
Msg(type, tag, rid, text) ==
    [type |-> type, tag |-> tag, request_id |-> rid, text |-> text]

\* no inbound message has been read
NoRaw == [type |-> "none", text |-> Text(0, 0, 0), request_id |-> NoId]

\* the subscriber is suspended in pubsub.listen()
Listening ==
    [pc |-> "listen", targets |-> {}, dead |-> {}, session_id |-> PyNone,
     sends |-> {}]

\* the subscriber has handled a message and has not yet suspended again
Handled ==
    [pc |-> "handled", targets |-> {}, dead |-> {}, session_id |-> PyNone,
     sends |-> {}]

\* _broadcast_to_ws is at line 92: the targets are chosen, none is sent to
Broadcasting(targets, session_id) ==
    [pc |-> "broadcast", targets |-> targets, dead |-> {},
     session_id |-> session_id, sends |-> {}]

(***************************************************************************)
(* memory-manager: the stores and the invocations of _run_consolidation    *)
(* (src/services/memory-manager/main.py)                                   *)
(***************************************************************************)
WORKING_MEMORY_TTL == 3600

CONSOLIDATION_INTERVAL == 1800

CONSOLIDATION_LOCK_TTL == CONSOLIDATION_INTERVAL + 300

\* line 157: the threshold 0.7; importances are counted in hundredths
IMPORTANCE_THRESHOLD == 70

\* line 194: the expiry set on a key whose delete failed
FALLBACK_EXPIRY == 300

\* the invocations of _run_consolidation and the working-memory keys
Sweeps == {"c1", "c2", "c3"}

Keys == {"k1", "k2"}

\* number of invocations made again after a return
MaxSweeps == 1

LockKey == "lock:consolidation"

NoLock == ""

NoKey == ""

\* json.loads of a stored working-memory value: importance and, beside the
\* value, the time to live of the key
Entry(importance, ttl) == [importance |-> importance, ttl |-> ttl]

NoEntry == Entry(0, 0)

\* the importances of the entries of the model: 0.50, 0.70, 0.71
Importances == {50, 70, 71}

\* a stored value that is not JSON: it is written with an importance no
\* entry has
Unparsable == Entry(-1, WORKING_MEMORY_TTL)

\* lines 153-156: json.loads returns for a stored entry and raises for a
\* value that is not JSON
parses(value) == value # Unparsable

\* the contents of the ephemeral space a sweep may find
WorkingStores ==
    UNION { [D -> {Entry(i, WORKING_MEMORY_TTL) : i \in Importances} \cup {Unparsable}] :
            D \in SUBSET Keys }

\* an invocation that has been called and has not yet tried the lock
Called == [pc |-> "called", keys |-> {}, key |-> NoKey, entry |-> NoEntry]

(***************************************************************************)
(* Initial state: after lifespan start-up, with or without a bus           *)
(***************************************************************************)
InitGateway ==
    /\ redis \in BOOLEAN
    /\ pending_responses = [r \in {} |-> "h1"]
    /\ future = [t \in Tasks |-> NoFuture]
    /\ pc = [t \in Tasks |-> IF t \in HttpTasks THEN "idle" ELSE "new"]
    /\ request_id = [t \in Tasks |-> NoId]
    /\ body = [t \in Tasks |-> NoBody]
    /\ memory_context = [t \in Tasks |-> <<>>]
    /\ waited = [t \in Tasks |-> 0]
    /\ result = [t \in HttpTasks |-> NoResult]
    /\ sent = [t \in WsTasks |-> <<>>]
    /\ ws_clients = [s \in {} |-> {}]
    /\ sub = Listening
    /\ message = NoMessage
    /\ error_logged = FALSE
    /\ nreq = 0
    /\ latency = [t \in HttpTasks |-> 0]
    /\ raw = [t \in WsTasks |-> NoRaw]

\* the watcher has seen no heartbeat
InitTracker ==
    /\ active_agents = {}
    /\ agent_last_seen = [n \in {} |-> 0]
    /\ stale_removed = {}
    /\ now = 0

\* every invocation of _run_consolidation of the model has been called and
\* is about to try the lock; the stores hold the entries W
InitSweeper(W) ==
    /\ lock = NoLock
    /\ working = W
    /\ episodic = [k \in Keys |-> <<>>]
    /\ semantic = [k \in Keys |-> <<>>]
    /\ sweep = [c \in Sweeps |-> Called]
    /\ calls = [c \in Sweeps |-> {}]
    /\ nsweeps = 0

Init ==
    /\ InitGateway
    /\ InitTracker
    /\ InitSweeper([k \in {} |-> NoEntry])

\* The event loop runs one task at a time: another task runs only once the
\* subscriber is suspended, in listen() or in a send of _broadcast_to_ws.
\* What a handler has returned or sent is observed in the state that
\* follows the step and is then dropped: the process keeps no copy of it.
Suspended ==
    /\ sub.pc # "handled"
    /\ \A h \in HttpTasks : pc[h] # "done"
    /\ \A w \in WsTasks :
          pc[w] \in {"new", "recv", "closed"} => sent[w] = <<>> /\ raw[w] = NoRaw

\* the deadline of the wait_for a task is in (lines 72, 309, 319)
Deadline_mut_fetch_unbounded(t) ==
    CASE pc[t] = "fetch" -> RESPONSE_TIMEOUT
      [] pc[t] = "publish" -> PUBLISH_TIMEOUT
      [] pc[t] = "await" -> RESPONSE_TIMEOUT
      [] OTHER -> 0

Deadline(t) ==
    CASE pc[t] = "fetch" -> MEMORY_RETRIEVE_TIMEOUT
      [] pc[t] = "publish" -> PUBLISH_TIMEOUT
      [] pc[t] = "await" -> RESPONSE_TIMEOUT
      [] OTHER -> 0

InTimedWait(t) == pc[t] \in {"fetch", "publish", "await"}

\* the seconds until the earliest deadline among the running wait_for calls
NextDeadline ==
    LET left == {Deadline(t) - waited[t] : t \in {x \in Tasks : InTimedWait(x)}}
    IN  CHOOSE d \in left : \A e \in left : d <= e

\* the event loop sleeps until the earliest deadline: no wait_for is carried
\* past its deadline
Tick ==
    /\ Suspended
    /\ \E t \in Tasks : InTimedWait(t)
    /\ NextDeadline > 0
    /\ waited' = [t \in Tasks |->
                    IF InTimedWait(t) THEN waited[t] + NextDeadline ELSE waited[t]]
    /\ latency' = [h \in HttpTasks |->
                    IF InTimedWait(h) THEN latency[h] + NextDeadline ELSE latency[h]]
    /\ UNCHANGED <<redis, pending_responses, future, pc, request_id, body,
                   memory_context, result, sent, ws_clients, sub, message,
                   error_logged, nreq, raw, tracker_vars, sweeper_vars>>

(***************************************************************************)
(* handle_input (lines 282-334)                                            *)
(***************************************************************************)
\* the Request Envelope built at lines 297-304 and 388-395
envelope(t) ==
    [request_id |-> request_id[t], session_id |-> body[t].session_id,
     text |-> body[t].text, memory_context |-> memory_context[t]]

\* lines 284-292: the request id, the 503 when there is no bus, the slot
HandleInput(h, sid, rid) ==
    /\ Suspended
    /\ pc[h] = "idle"
    /\ nreq < MaxRequests
    /\ uuid4(rid)
    /\ nreq' = nreq + 1
    /\ latency' = [latency EXCEPT ![h] = 0]
    /\ memory_context' = [memory_context EXCEPT ![h] = <<>>]
    /\ waited' = [waited EXCEPT ![h] = 0]
    /\ IF unavailable(redis)
       THEN /\ result' = [result EXCEPT ![h] = HTTP503]
            /\ pc' = [pc EXCEPT ![h] = "done"]
            /\ request_id' = [request_id EXCEPT ![h] = NoId]
            /\ body' = [body EXCEPT ![h] = NoBody]
            /\ UNCHANGED <<future, pending_responses>>
       ELSE /\ result' = [result EXCEPT ![h] = NoResult]
            /\ pc' = [pc EXCEPT ![h] = "fetch"]
            /\ request_id' = [request_id EXCEPT ![h] = rid]
            /\ body' = [body EXCEPT ![h] = [text |-> Text(0, 5, 0), session_id |-> sid]]
            /\ future' = [future EXCEPT ![h] = create_future]
            /\ pending_responses' = register(pending_responses, rid, h)
    /\ UNCHANGED <<redis, sent, ws_clients, sub, message, error_logged,
                   raw, tracker_vars, sweeper_vars>>

\* lines 295 and 387: the memory fetch returns
FetchReturn(t, outcome, hits) ==
    /\ Suspended
    /\ pc[t] = "fetch"
    /\ outcome = "timeout" => waited[t] = MEMORY_RETRIEVE_TIMEOUT
    /\ outcome = "no_client" => waited[t] = 0
    /\ memory_context' = [memory_context EXCEPT ![t] =
                            fetch_memory_context(outcome, hits)]
    /\ pc' = [pc EXCEPT ![t] = "publish"]
    /\ waited' = [waited EXCEPT ![t] = 0]
    /\ UNCHANGED <<redis, pending_responses, future, request_id, body, result,
                   sent, ws_clients, sub, message, error_logged, nreq,
                   latency, raw, tracker_vars, sweeper_vars>>

\* the end of handle_input: the finally of lines 330-331, then the return
\* (the locals of the call end with it)
HttpReturn(h, res) ==
    /\ result' = [result EXCEPT ![h] = res]
    /\ pending_responses' = pop(pending_responses, request_id[h])
    /\ pc' = [pc EXCEPT ![h] = "done"]
    /\ waited' = [waited EXCEPT ![h] = 0]
    /\ future' = [future EXCEPT ![h] = NoFuture]
    /\ request_id' = [request_id EXCEPT ![h] = NoId]
    /\ body' = [body EXCEPT ![h] = NoBody]
    /\ memory_context' = [memory_context EXCEPT ![h] = <<>>]

\* line 332: the latency is observed; the response has gone to the client
HttpEnd(h) ==
    /\ h \in HttpTasks
    /\ pc[h] = "done"
    /\ pc' = [pc EXCEPT ![h] = "idle"]
    /\ result' = [result EXCEPT ![h] = NoResult]
    /\ latency' = [latency EXCEPT ![h] = 0]
    /\ UNCHANGED <<redis, pending_responses, future, request_id, body,
                   memory_context, waited, sent, ws_clients, sub, message,
                   error_logged, nreq, raw, tracker_vars, sweeper_vars>>

\* lines 306-316: the publish returns
HttpPublishOk(h) ==
    /\ Suspended
    /\ h \in HttpTasks
    /\ pc[h] = "publish"
    /\ pc' = [pc EXCEPT ![h] = "await"]
    /\ waited' = [waited EXCEPT ![h] = 0]
    /\ UNCHANGED <<redis, pending_responses, future, request_id, body,
                   memory_context, result, sent, ws_clients, sub, message,
                   error_logged, nreq, latency, raw, tracker_vars, sweeper_vars>>

\* lines 311-314: the publish deadline passes
HttpPublishTimeout(h) ==
    /\ Suspended
    /\ h \in HttpTasks
    /\ pc[h] = "publish"
    /\ waited[h] = PUBLISH_TIMEOUT
    /\ HttpReturn(h, InputResponse_error(request_id[h], "publish timeout"))
    /\ UNCHANGED <<redis, sent, ws_clients, sub, message, error_logged, nreq,
                   latency, raw, tracker_vars, sweeper_vars>>

\* lines 326-329: the publish raises something else than a timeout
HttpPublishError(h) ==
    /\ Suspended
    /\ h \in HttpTasks
    /\ pc[h] = "publish"
    /\ HttpReturn(h, InputResponse_error(request_id[h], "internal error"))
    /\ UNCHANGED <<redis, sent, ws_clients, sub, message, error_logged, nreq,
                   latency, raw, tracker_vars, sweeper_vars>>

\* lines 319-321: the future is done, wait_for returns its result
HttpReply(h) ==
    /\ Suspended
    /\ h \in HttpTasks
    /\ pc[h] = "await"
    /\ future[h].state = "done"
    /\ HttpReturn(h, InputResponse_response(request_id[h], future[h].result))
    /\ UNCHANGED <<redis, sent, ws_clients, sub, message, error_logged, nreq,
                   latency, raw, tracker_vars, sweeper_vars>>

\* lines 322-325: the response deadline passes with the future not done;
\* wait_for cancels the future and raises TimeoutError
HttpResponseTimeout(h) ==
    /\ Suspended
    /\ h \in HttpTasks
    /\ pc[h] = "await"
    /\ waited[h] = RESPONSE_TIMEOUT
    /\ ~done(future[h])
    /\ HttpReturn(h, InputResponse_error(request_id[h], "timeout"))
    /\ UNCHANGED <<redis, sent, ws_clients, sub, message, error_logged, nreq,
                   latency, raw, tracker_vars, sweeper_vars>>

(***************************************************************************)
(* ws_chat (lines 344-435)                                                 *)
(***************************************************************************)
\* the inbound JSON messages of the model; request_id "" is an absent id
InboundTexts == { Text(1, 2000, 1), Text(0, 0, 0), Text(2, 0, 0),
                  Text(0, 2001, 0) }

Inbound ==
    { [type |-> "ping", text |-> Text(0, 0, 0), request_id |-> NoId] }
    \cup { [type |-> "user.message", text |-> x, request_id |-> r] :
             x \in InboundTexts, r \in RequestIds \cup {NoId} }

\* lines 359-368: the inbound message is rejected: its type is not
\* user.message, or its trimmed text is empty or longer than 2000
malformed_mut_inclusive(inbound) ==
    \/ inbound.type # "user.message"
    \/ strip(inbound.text).core = 0
    \/ len(strip(inbound.text)) > 2001

malformed(inbound) ==
    \/ inbound.type # "user.message"
    \/ strip(inbound.text).core = 0
    \/ len(strip(inbound.text)) > 2000

\* lines 349-354: accept and register the connection
WsConnect(w, sid) ==
    /\ Suspended
    /\ w \in WsTasks
    /\ pc[w] = "new"
    /\ ws_clients' = ws_connect(ws_clients, sid, w)
    /\ body' = [body EXCEPT ![w] = [text |-> Text(0, 0, 0), session_id |-> sid]]
    /\ pc' = [pc EXCEPT ![w] = "recv"]
    /\ UNCHANGED <<redis, pending_responses, future, request_id,
                   memory_context, waited, result, sent, sub, message,
                   error_logged, nreq, latency, raw, tracker_vars, sweeper_vars>>

\* lines 428-435: the loop is left by an exception; the finally deregisters
\* the connection (the locals of the call end with it)
WsLeave(w) ==
    /\ ws_clients' = ws_disconnect(ws_clients, body[w].session_id, w)
    /\ pc' = [pc EXCEPT ![w] = "closed"]
    /\ request_id' = [request_id EXCEPT ![w] = NoId]
    /\ memory_context' = [memory_context EXCEPT ![w] = <<>>]
    /\ waited' = [waited EXCEPT ![w] = 0]

\* `continue`: back to line 358 for the next inbound message
WsContinue(w) ==
    /\ pc' = [pc EXCEPT ![w] = "recv"]
    /\ request_id' = [request_id EXCEPT ![w] = NoId]
    /\ memory_context' = [memory_context EXCEPT ![w] = <<>>]
    /\ waited' = [waited EXCEPT ![w] = 0]
    /\ UNCHANGED ws_clients

\* the messages sent on the connection have gone to the client
WsFlush(w) ==
    /\ w \in WsTasks
    /\ pc[w] \in {"recv", "closed"}
    /\ sent[w] # <<>> \/ raw[w] # NoRaw
    /\ sent' = [sent EXCEPT ![w] = <<>>]
    /\ raw' = [raw EXCEPT ![w] = NoRaw]
    /\ UNCHANGED <<redis, pending_responses, future, pc, request_id, body,
                   memory_context, waited, result, ws_clients, sub, message,
                   error_logged, nreq, latency, tracker_vars, sweeper_vars>>

\* line 358 raising WebSocketDisconnect
WsDisconnect(w) ==
    /\ Suspended
    /\ w \in WsTasks
    /\ pc[w] = "recv"
    /\ WsLeave(w)
    /\ UNCHANGED <<redis, pending_responses, future, body, result, sent, sub,
                   message, error_logged, nreq, latency, raw, tracker_vars,
                   sweeper_vars>>

\* lines 358-368: an inbound message that is rejected with an error message
WsReject(w, inbound, ok) ==
    /\ Suspended
    /\ w \in WsTasks
    /\ pc[w] = "recv"
    /\ malformed(inbound)
    /\ raw' = [raw EXCEPT ![w] = inbound]
    /\ IF ok
       THEN /\ sent' = [sent EXCEPT ![w] =
                  <<Msg("error",
                        IF inbound.type # "user.message" THEN "unknown type"
                        ELSE "text must be 1-2000 chars", NoId, PyNone)>>]
            /\ WsContinue(w)
       ELSE /\ sent' = [sent EXCEPT ![w] = <<>>]
            /\ WsLeave(w)
    /\ UNCHANGED <<redis, pending_responses, future, body, result, sub,
                   message, error_logged, nreq, latency, tracker_vars,
                   sweeper_vars>>

\* lines 358-376: a user.message with a valid text while there is no bus
WsUnavailable(w, inbound, rid, ok) ==
    /\ Suspended
    /\ w \in WsTasks
    /\ pc[w] = "recv"
    /\ ~malformed(inbound)
    /\ raw' = [raw EXCEPT ![w] = inbound]
    /\ IF inbound.request_id # NoId THEN rid = inbound.request_id ELSE uuid4(rid)
    /\ unavailable(redis)
    /\ IF ok
       THEN /\ sent' = [sent EXCEPT ![w] =
                  <<Msg("error", "Redis unavailable", rid, PyNone)>>]
            /\ WsContinue(w)
       ELSE /\ sent' = [sent EXCEPT ![w] = <<>>]
            /\ WsLeave(w)
    /\ UNCHANGED <<redis, pending_responses, future, body, result, sub,
                   message, error_logged, nreq, latency, tracker_vars,
                   sweeper_vars>>

\* lines 358-385: a user.message with a valid text: the request id (the
\* client's, or a fresh uuid), the slot, and the "thinking" notification;
\* a failing send leaves the loop
WsUserMessage(w, inbound, rid, ok) ==
    /\ Suspended
    /\ w \in WsTasks
    /\ pc[w] = "recv"
    /\ ~malformed(inbound)
    /\ raw' = [raw EXCEPT ![w] = inbound]
    /\ IF inbound.request_id # NoId THEN rid = inbound.request_id ELSE uuid4(rid)
    /\ ~unavailable(redis)
    /\ nreq < MaxRequests
    /\ nreq' = nreq + 1
    /\ future' = [future EXCEPT ![w] = create_future]
    /\ pending_responses' = register(pending_responses, rid, w)
    /\ IF ok
       THEN /\ sent' = [sent EXCEPT ![w] =
                  <<Msg("animation.command", "thinking", rid, PyNone)>>]
            /\ pc' = [pc EXCEPT ![w] = "fetch"]
            /\ request_id' = [request_id EXCEPT ![w] = rid]
            /\ body' = [body EXCEPT ![w].text = strip(inbound.text)]
            /\ UNCHANGED <<ws_clients, memory_context, waited>>
       ELSE /\ sent' = [sent EXCEPT ![w] = <<>>]
            /\ WsLeave(w)
            /\ UNCHANGED body
    /\ UNCHANGED <<redis, result, sub, message, error_logged, latency,
                   tracker_vars, sweeper_vars>>

\* line 398: the publish returns
WsPublishOk(w) ==
    /\ Suspended
    /\ w \in WsTasks
    /\ pc[w] = "publish"
    /\ pc' = [pc EXCEPT ![w] = "await"]
    /\ waited' = [waited EXCEPT ![w] = 0]
    /\ UNCHANGED <<redis, pending_responses, future, request_id, body,
                   memory_context, result, sent, ws_clients, sub, message,
                   error_logged, nreq, latency, raw, tracker_vars, sweeper_vars>>

\* lines 399-405: the publish deadline passes: the error message, then the
\* pop; a failing send leaves the loop before the pop
WsPublishTimeout(w, ok) ==
    /\ Suspended
    /\ w \in WsTasks
    /\ pc[w] = "publish"
    /\ waited[w] = PUBLISH_TIMEOUT
    /\ IF ok
       THEN /\ sent' = [sent EXCEPT ![w] =
                  Append(@, Msg("error", "publish timeout", request_id[w], PyNone))]
            /\ pending_responses' = pop(pending_responses, request_id[w])
            /\ future' = [future EXCEPT ![w] = NoFuture]
            /\ WsContinue(w)
       ELSE /\ WsLeave(w)
            /\ UNCHANGED <<sent, pending_responses, future>>
    /\ UNCHANGED <<redis, body, result, sub, message, error_logged, nreq,
                   latency, raw, tracker_vars, sweeper_vars>>

\* line 398 raising something else than a timeout: caught at line 430 only
WsPublishError(w) ==
    /\ Suspended
    /\ w \in WsTasks
    /\ pc[w] = "publish"
    /\ WsLeave(w)
    /\ UNCHANGED <<redis, pending_responses, future, body, result, sent, sub,
                   message, error_logged, nreq, latency, raw, tracker_vars,
                   sweeper_vars>>

\* line 408: wait_for returns the result of the done future
WsReply(w) ==
    /\ Suspended
    /\ w \in WsTasks
    /\ pc[w] = "await"
    /\ future[w].state = "done"
    /\ pc' = [pc EXCEPT ![w] = "respond"]
    /\ waited' = [waited EXCEPT ![w] = 0]
    /\ UNCHANGED <<redis, pending_responses, future, request_id, body,
                   memory_context, result, sent, ws_clients, sub, message,
                   error_logged, nreq, latency, raw, tracker_vars, sweeper_vars>>

\* line 408: the response deadline passes; wait_for cancels the future
WsResponseTimeout(w) ==
    /\ Suspended
    /\ w \in WsTasks
    /\ pc[w] = "await"
    /\ waited[w] = RESPONSE_TIMEOUT
    /\ ~done(future[w])
    /\ future' = [future EXCEPT ![w] = cancel(@)]
    /\ pc' = [pc EXCEPT ![w] = "respond"]
    /\ waited' = [waited EXCEPT ![w] = 0]
    /\ UNCHANGED <<redis, pending_responses, request_id, body, memory_context,
                   result, sent, ws_clients, sub, message, error_logged, nreq,
                   latency, raw, tracker_vars, sweeper_vars>>

\* the messages of lines 409-417 (reply) or 420-422 (timeout)
respond_messages_mut_text_first(fut, rid) ==
    IF fut.state = "done"
    THEN << Msg("response.text", "", rid, fut.result),
            Msg("animation.command", "talking", rid, PyNone),
            Msg("animation.command", "idle", rid, PyNone) >>
    ELSE << Msg("error", "response timeout", rid, PyNone) >>

respond_messages(fut, rid) ==
    IF fut.state = "done"
    THEN << Msg("animation.command", "talking", rid, PyNone),
            Msg("response.text", "", rid, fut.result),
            Msg("animation.command", "idle", rid, PyNone) >>
    ELSE << Msg("error", "response timeout", rid, PyNone) >>

\* lines 409-426: the first k messages are sent, then the finally pops the
\* slot; a failed send leaves the loop after the pop
WsRespond(w, k) ==
    /\ Suspended
    /\ w \in WsTasks
    /\ pc[w] = "respond"
    /\ LET msgs == respond_messages(future[w], request_id[w])
       IN  /\ k \in 0..Len(msgs)
           /\ sent' = [sent EXCEPT ![w] = @ \o SubSeq(msgs, 1, k)]
           /\ IF k = Len(msgs) THEN WsContinue(w) ELSE WsLeave(w)
    /\ pending_responses' = pop(pending_responses, request_id[w])
    /\ future' = [future EXCEPT ![w] = NoFuture]
    /\ UNCHANGED <<redis, body, result, sub, message, error_logged, nreq,
                   latency, raw, tracker_vars, sweeper_vars>>

(***************************************************************************)
(* _redis_subscriber (lines 105-152) and _broadcast_to_ws (lines 82-102)   *)
(***************************************************************************)
\* lines 151-152: an exception of the loop body is logged and the loop
\* goes on with the next message
on_message_error_mut_raise ==
    [pc |-> "crashed", targets |-> {}, dead |-> {}, session_id |-> PyNone,
     sends |-> {}]

on_message_error == Handled

\* lines 113-152: message m arrives and the loop body runs for it, up to
\* its end or to the first send of a broadcast
Dispatch(m) ==
    /\ Suspended
    /\ redis
    /\ sub.pc = "listen"
    /\ message' = m
    /\ IF m.type \notin {"message", "pmessage"}
       THEN /\ sub' = Handled
            /\ UNCHANGED <<future, error_logged>>
       ELSE IF "channel" \notin DOMAIN m \/ "data" \notin DOMAIN m
       THEN \* KeyError at line 118 or 119
            /\ sub' = on_message_error
            /\ error_logged' = TRUE
            /\ UNCHANGED future
       ELSE IF startswith_language_response(m.channel)
       THEN /\ future' = resolve(future, pending_responses, request_id_of(m),
                                 response_text(m.data))
            /\ sub' = Handled
            /\ UNCHANGED error_logged
       ELSE IF m.channel = EmotionChannel
       THEN /\ LET emotion_data == json_loads(m.data)
               IN  IF emotion_data.ok /\ emotion_data.kind = "dict"
                      /\ broadcast_targets(ws_clients, PyNone) # {}
                   THEN sub' = Broadcasting(broadcast_targets(ws_clients, PyNone),
                                            PyNone)
                   ELSE sub' = Handled
            /\ UNCHANGED <<future, error_logged>>
       ELSE /\ sub' = Handled
            /\ UNCHANGED <<future, error_logged>>
    /\ UNCHANGED <<redis, pending_responses, pc, request_id, body,
                   memory_context, waited, result, sent, ws_clients, nreq,
                   latency, raw, tracker_vars, sweeper_vars>>

\* line 113: the loop suspends in pubsub.listen() for the next message
Listen ==
    /\ sub.pc = "handled"
    /\ sub' = Listening
    /\ message' = NoMessage
    /\ UNCHANGED <<error_logged, redis, pending_responses, future, pc,
                   request_id, body, memory_context, waited, result, sent,
                   ws_clients, nreq, latency, raw, tracker_vars, sweeper_vars>>

\* lines 82-91: _broadcast_to_ws is called with session_id; without a
\* target it returns at once
BroadcastCall(session_id) ==
    /\ Suspended
    /\ sub.pc = "listen"
    /\ sub' = IF broadcast_targets(ws_clients, session_id) = {}
              THEN [Handled EXCEPT !.session_id = session_id]
              ELSE Broadcasting(broadcast_targets(ws_clients, session_id),
                                session_id)
    /\ UNCHANGED <<redis, pending_responses, future, pc, request_id, body,
                   memory_context, waited, result, sent, ws_clients, message,
                   error_logged, nreq, latency, raw, tracker_vars, sweeper_vars>>

\* lines 93-102: the send to one target returns or raises; after the last
\* target the dead sockets are discarded and the loop listens again
BroadcastSend(w, ok) ==
    /\ Suspended
    /\ sub.pc = "broadcast"
    /\ w \in sub.targets
    /\ pc[w] = "closed" => ~ok
    /\ LET dead == IF ok THEN sub.dead
                   ELSE sub.dead \cup
                        {<<s, w>> : s \in {x \in DOMAIN ws_clients : w \in ws_clients[x]}}
           rest == sub.targets \ {w}
       IN  IF rest = {}
           THEN /\ ws_clients' = discard_dead(ws_clients, dead)
                /\ sub' = [sub EXCEPT !.pc = "handled", !.targets = {},
                                      !.dead = dead, !.sends = @ \cup {w}]
           ELSE /\ sub' = [sub EXCEPT !.targets = rest, !.dead = dead,
                                     !.sends = @ \cup {w}]
                /\ UNCHANGED ws_clients
    /\ UNCHANGED <<redis, pending_responses, future, pc, request_id, body,
                   memory_context, waited, result, sent, message,
                   error_logged, nreq, latency, raw, tracker_vars, sweeper_vars>>

(***************************************************************************)
(* _heartbeat_watcher (lines 155-179)                                      *)
(***************************************************************************)
\* line 171: the age in seconds beyond which a worker is stale
STALE_SECONDS == 60

\* the latest time of the model and the steps time advances by
MaxTime == 124

TimeSteps == {30, 31}

\* the workers that send heartbeats
Workers == {"a1", "a2", "a3"}

HeartbeatChannel(n) == <<"agent", "heartbeat", n>>

\* the messages pubsub.listen() of the watcher yields
HeartbeatMessages ==
    { [type |-> "psubscribe", channel |-> <<"agent", "heartbeat", "*">>],
      [type |-> "pmessage"] }
    \cup { [type |-> "pmessage", channel |-> HeartbeatChannel(n)] : n \in Workers }

\* line 165: channel.split(".")[-1]
agent_name_of(channel) == channel[Len(channel)]

\* line 171: [n for n, ts in agent_last_seen.items() if now - ts > 60]
stale_mut_interval(last_seen, t) ==
    {n \in DOMAIN last_seen : t - last_seen[n] >= 30}

stale_mut_inclusive(last_seen, t) ==
    {n \in DOMAIN last_seen : t - last_seen[n] >= STALE_SECONDS}

stale(last_seen, t) ==
    {n \in DOMAIN last_seen : t - last_seen[n] > STALE_SECONDS}

\* line 174: del agent_last_seen[n] for every stale n
del_stale_mut_keep(seen, gone) == seen

del_stale(seen, gone) == [n \in (DOMAIN seen) \ gone |-> seen[n]]

\* time passes
Elapse_mut_timer_sweep(d) ==
    /\ now + d <= MaxTime
    /\ now' = now + d
    /\ active_agents' = active_agents \ stale(agent_last_seen, now + d)
    /\ agent_last_seen' = del_stale(agent_last_seen, stale(agent_last_seen, now + d))
    /\ UNCHANGED <<stale_removed, gateway_vars, sweeper_vars>>

Elapse(d) ==
    /\ now + d <= MaxTime
    /\ now' = now + d
    /\ UNCHANGED <<active_agents, agent_last_seen, stale_removed,
                   gateway_vars, sweeper_vars>>

\* lines 160-179: one message of the watcher's loop; the body has no await
Heartbeat(m) ==
    /\ redis
    /\ IF m.type # "pmessage"
       THEN /\ stale_removed' = {}
            /\ UNCHANGED <<active_agents, agent_last_seen>>
       ELSE IF "channel" \notin DOMAIN m
       THEN \* KeyError at line 164, logged at line 179
            /\ stale_removed' = {}
            /\ UNCHANGED <<active_agents, agent_last_seen>>
       ELSE LET agent_name == agent_name_of(m.channel)
                seen == [n \in (DOMAIN agent_last_seen) \cup {agent_name} |->
                           IF n = agent_name THEN now ELSE agent_last_seen[n]]
                gone == stale(seen, now)
            IN  /\ active_agents' = (active_agents \cup {agent_name}) \ gone
                /\ agent_last_seen' = del_stale(seen, gone)
                /\ stale_removed' = gone
    /\ UNCHANGED <<now, gateway_vars, sweeper_vars>>

(***************************************************************************)
(* _run_consolidation (memory-manager/main.py lines 113-206)               *)
(***************************************************************************)
\* the invocation has returned / has raised
Returned == [pc |-> "returned", keys |-> {}, key |-> NoKey, entry |-> NoEntry]

Raised == [pc |-> "raised", keys |-> {}, key |-> NoKey, entry |-> NoEntry]

\* lines 125-147: the lock is acquired and the scan runs
Scanning == [pc |-> "scan", keys |-> {}, key |-> NoKey, entry |-> NoEntry]

\* line 149 and the `continue`s: the for loop takes its next key
Loop(keys) == [pc |-> "loop", keys |-> keys, key |-> NoKey, entry |-> NoEntry]

\* the finally of lines 205-206 is reached
Releasing == [pc |-> "release", keys |-> {}, key |-> NoKey, entry |-> NoEntry]

\* line 115: SET lock:consolidation "1" NX EX 2100 answers true when the
\* key was absent
set_nx_mut_plain_set(l) == TRUE

set_nx(l) == l = NoLock

\* line 157: entry.get("importance", 0) <= 0.7 skips the entry
qualifies_mut_inclusive(entry) == entry.importance >= IMPORTANCE_THRESHOLD

qualifies(entry) == ~(entry.importance <= IMPORTANCE_THRESHOLD)

\* the `continue`s of lines 152, 156, 158 and 170: the entry is left and
\* the for loop goes on with the keys that remain
continue_mut_abort(keys) == Releasing

continue(keys) == Loop(keys)

\* the call is added to the calls of invocation c
called(c, op, key, outcome) ==
    [calls EXCEPT ![c] = @ \cup {<<op, key, outcome>>}]

\* lines 115-118: the lock is tried; without it the invocation returns
TryLock(c) ==
    /\ sweep[c].pc = "called"
    /\ IF set_nx(lock)
       THEN /\ lock' = c
            /\ sweep' = [sweep EXCEPT ![c] = Scanning]
       ELSE /\ sweep' = [sweep EXCEPT ![c] = Returned]
            /\ UNCHANGED lock
    /\ UNCHANGED <<working, episodic, semantic, calls, nsweeps, gateway_vars,
                   tracker_vars>>

\* line 115 raising: the exception leaves _run_consolidation
LockError(c) ==
    /\ sweep[c].pc = "called"
    /\ sweep' = [sweep EXCEPT ![c] = Raised]
    /\ UNCHANGED <<lock, working, episodic, semantic, calls, nsweeps,
                   gateway_vars, tracker_vars>>

\* lines 125-147: the scan ends: complete, or cut off by the 60 s timeout
\* or the 500 iterations with the keys found so far, or by an exception
ScanReturn(c, found, how) ==
    /\ sweep[c].pc = "scan"
    /\ how \in {"complete", "partial", "error"}
    /\ found \subseteq DOMAIN working
    /\ how = "complete" => found = DOMAIN working
    /\ how = "error" => found = {}
    /\ sweep' = [sweep EXCEPT ![c] = IF how = "error" THEN Releasing ELSE Loop(found)]
    /\ calls' = called(c, "scan", NoKey, how)
    /\ UNCHANGED <<lock, working, episodic, semantic, nsweeps, gateway_vars,
                   tracker_vars>>

\* lines 149-158: the next key is read; a missing key, a value that is not
\* JSON and an entry that does not qualify are skipped; a failing read ends
\* the loop (line 203)
Get(c, k, ok) ==
    /\ sweep[c].pc = "loop"
    /\ k \in sweep[c].keys
    /\ IF ~ok
       THEN /\ sweep' = [sweep EXCEPT ![c] = Releasing]
            /\ calls' = called(c, "get", k, "error")
       ELSE /\ sweep' = [sweep EXCEPT ![c] =
                  IF k \in DOMAIN working /\ parses(working[k])
                     /\ qualifies(working[k])
                  THEN [pc |-> "episodic", keys |-> sweep[c].keys \ {k},
                        key |-> k, entry |-> working[k]]
                  ELSE continue(sweep[c].keys \ {k})]
            /\ calls' = called(c, "get", k, "ok")
    /\ UNCHANGED <<lock, working, episodic, semantic, nsweeps, gateway_vars,
                   tracker_vars>>

\* lines 198-202: the loop is over
LoopEnd(c) ==
    /\ sweep[c].pc = "loop"
    /\ sweep[c].keys = {}
    /\ sweep' = [sweep EXCEPT ![c] = Releasing]
    /\ UNCHANGED <<lock, working, episodic, semantic, calls, nsweeps,
                   gateway_vars, tracker_vars>>

\* lines 161-170: the entry goes on to the semantic write and the delete
\* only if _store_episodic returned; an exception skips it (continue)
episodic_stored_mut_ignore_failure(outcome) == TRUE

episodic_stored(outcome) == outcome = "ok"

\* lines 174-185: the semantic write is followed by the delete, whether it
\* returned or raised
after_semantic_mut_skip_delete(ok) == IF ok THEN "delete" ELSE "loop"

after_semantic(ok) == "delete"

\* lines 160-170 and _store_episodic (lines 209-233): the row is inserted
\* and memory.stored is published; a failure of either skips the entry
Episodic(c, outcome) ==
    /\ sweep[c].pc = "episodic"
    /\ outcome \in {"ok", "insert_failed", "publish_failed"}
    /\ episodic' = IF outcome = "insert_failed" THEN episodic
                   ELSE [episodic EXCEPT ![sweep[c].key] =
                            Append(@, sweep[c].entry.importance)]
    /\ sweep' = [sweep EXCEPT ![c] =
                    IF episodic_stored(outcome) THEN [@ EXCEPT !.pc = "semantic"]
                    ELSE continue(sweep[c].keys)]
    /\ calls' = called(c, "episodic", sweep[c].key, outcome)
    /\ UNCHANGED <<lock, working, semantic, nsweeps, gateway_vars,
                   tracker_vars>>

\* lines 172-183: the semantic write; its failure is logged only
Semantic(c, ok) ==
    /\ sweep[c].pc = "semantic"
    /\ semantic' = IF ok
                   THEN [semantic EXCEPT ![sweep[c].key] =
                            Append(@, sweep[c].entry.importance)]
                   ELSE semantic
    /\ sweep' = [sweep EXCEPT ![c].pc = after_semantic(ok)]
    /\ calls' = called(c, "semantic", sweep[c].key, IF ok THEN "ok" ELSE "error")
    /\ UNCHANGED <<lock, working, episodic, nsweeps, gateway_vars,
                   tracker_vars>>

\* lines 187-192 and 197: the delete of the key
Delete(c, ok) ==
    /\ sweep[c].pc = "delete"
    /\ IF ok
       THEN /\ working' = [k \in (DOMAIN working) \ {sweep[c].key} |-> working[k]]
            /\ sweep' = [sweep EXCEPT ![c] = Loop(sweep[c].keys)]
       ELSE /\ sweep' = [sweep EXCEPT ![c].pc = "expire"]
            /\ UNCHANGED working
    /\ calls' = called(c, "delete", sweep[c].key, IF ok THEN "ok" ELSE "error")
    /\ UNCHANGED <<lock, episodic, semantic, nsweeps, gateway_vars,
                   tracker_vars>>

\* lines 193-197: the expiry of 300 s after a failed delete
Expire(c, ok) ==
    /\ sweep[c].pc = "expire"
    /\ working' = IF ok /\ sweep[c].key \in DOMAIN working
                  THEN [working EXCEPT ![sweep[c].key].ttl = FALLBACK_EXPIRY]
                  ELSE working
    /\ sweep' = [sweep EXCEPT ![c] = Loop(sweep[c].keys)]
    /\ calls' = called(c, "expire", sweep[c].key, IF ok THEN "ok" ELSE "error")
    /\ UNCHANGED <<lock, episodic, semantic, nsweeps, gateway_vars,
                   tracker_vars>>

\* lines 205-206: the lock key is deleted, whoever made it; a failing
\* delete raises out of _run_consolidation
Release(c, ok) ==
    /\ sweep[c].pc = "release"
    /\ lock' = IF ok THEN NoLock ELSE lock
    /\ sweep' = [sweep EXCEPT ![c] = IF ok THEN Returned ELSE Raised]
    /\ calls' = called(c, "delete", LockKey, IF ok THEN "ok" ELSE "error")
    /\ UNCHANGED <<working, episodic, semantic, nsweeps, gateway_vars,
                   tracker_vars>>

\* lines 107-110 and 511-514: _run_consolidation is called again
Invoke(c) ==
    /\ sweep[c].pc \in {"returned", "raised"}
    /\ nsweeps < MaxSweeps
    /\ nsweeps' = nsweeps + 1
    /\ sweep' = [sweep EXCEPT ![c] = Called]
    /\ calls' = [calls EXCEPT ![c] = {}]
    /\ UNCHANGED <<lock, working, episodic, semantic, gateway_vars,
                   tracker_vars>>

\* a store call that has no deadline never returns: the get of line 150,
\* the publish of line 229 after the INSERT, the embedding and the upsert
\* of lines 244-245, the delete of line 188, the expire of line 194 and the
\* delete of the lock key of line 206.  The scan is cut off by the timeout
\* of line 127
Stall(c) ==
    /\ \/ sweep[c].pc = "loop" /\ sweep[c].keys # {}
       \/ sweep[c].pc \in {"episodic", "semantic", "delete", "expire", "release"}
    /\ sweep' = [sweep EXCEPT ![c].pc = "stalled"]
    /\ UNCHANGED <<lock, working, episodic, semantic, calls, nsweeps,
                   gateway_vars, tracker_vars>>

\* the expiry of the lock key, 2100 s after the SET.  The scan is over
\* within 60 s (line 127); the calls of the loop and the release have no
\* deadline that keeps the sweep below the expiry
LockExpire ==
    /\ lock # NoLock
    /\ sweep[lock].pc # "scan"
    /\ lock' = NoLock
    /\ UNCHANGED <<working, episodic, semantic, sweep, calls, nsweeps,
                   gateway_vars, tracker_vars>>

\* the expiry of a working-memory key
KeyExpire(k) ==
    /\ k \in DOMAIN working
    /\ working' = [j \in (DOMAIN working) \ {k} |-> working[j]]
    /\ UNCHANGED <<lock, episodic, semantic, sweep, calls, nsweeps,
                   gateway_vars, tracker_vars>>

(***************************************************************************)
(* Specifications.  H are the HTTP tasks, W the connections and S the      *)
(* session ids that take part, M the bus messages that arrive and L the    *)
(* hit lists the memory service answers with.                              *)
(***************************************************************************)
HttpHandler(H, S, L) ==
    \/ \E h \in H, sid \in S, rid \in RequestIds : HandleInput(h, sid, rid)
    \/ \E h \in H, outcome \in FetchOutcomes, hits \in L :
          FetchReturn(h, outcome, hits)
    \/ \E h \in H : HttpPublishOk(h)
    \/ \E h \in H : HttpPublishTimeout(h)
    \/ \E h \in H : HttpPublishError(h)
    \/ \E h \in H : HttpReply(h)
    \/ \E h \in H : HttpResponseTimeout(h)
    \/ \E h \in H : HttpEnd(h)

WsHandler(W, S, L) ==
    \/ \E w \in W, sid \in S : WsConnect(w, sid)
    \/ \E w \in W : WsDisconnect(w)
    \/ \E w \in W : WsFlush(w)
    \/ \E w \in W, inbound \in Inbound, ok \in BOOLEAN : WsReject(w, inbound, ok)
    \/ \E w \in W, inbound \in Inbound, rid \in RequestIds, ok \in BOOLEAN :
          WsUnavailable(w, inbound, rid, ok)
    \/ \E w \in W, inbound \in Inbound, rid \in RequestIds, ok \in BOOLEAN :
          WsUserMessage(w, inbound, rid, ok)
    \/ \E w \in W, outcome \in FetchOutcomes, hits \in L :
          FetchReturn(w, outcome, hits)
    \/ \E w \in W : WsPublishOk(w)
    \/ \E w \in W, ok \in BOOLEAN : WsPublishTimeout(w, ok)
    \/ \E w \in W : WsPublishError(w)
    \/ \E w \in W : WsReply(w)
    \/ \E w \in W : WsResponseTimeout(w)
    \/ \E w \in W, k \in 0..3 : WsRespond(w, k)

Subscriber(M) ==
    \/ \E m \in M : Dispatch(m)
    \/ Listen

Broadcast(W) == \E w \in W, ok \in BOOLEAN : BroadcastSend(w, ok)

\* the replies and events of the two-handler specification
PairMessages ==
    { [type |-> "pmessage", channel |-> ReplyChannel(r), data |-> d] :
        r \in RequestIds,
        d \in {"not-json", "{\"request_id\": \"r2\", \"response\": \"hi\"}"} }
    \cup { [type |-> "message", channel |-> EmotionChannel,
            data |-> "{\"intent\":\"greeting\"}"] }

\* Spec: one HTTP request handler and one connection, handled concurrently
Next ==
    \/ Tick
    \/ HttpHandler({"h1"}, {"s1"}, {<<>>})
    \/ WsHandler({"w1"}, {"s1"}, {<<>>})
    \/ Subscriber(PairMessages)
    \/ Broadcast({"w1"})

Spec == Init /\ [][Next]_vars

\* SpecHttp: the HTTP handler alone, with every message of the model
NextHttp ==
    \/ Tick
    \/ HttpHandler({"h1"}, SessionIds, HitLists)
    \/ Subscriber(Messages)

SpecHttp == Init /\ [][NextHttp]_vars

\* SpecFetch: the HTTP handler alone, with a memory service whose every
\* 200 answer carries a hit with a content
NextFetch ==
    \/ Tick
    \/ HttpHandler({"h1"}, {"s1"}, {<<"", "m1">>})
    \/ Subscriber(PairMessages)

SpecFetch == Init /\ [][NextFetch]_vars

\* the session_id arguments of _broadcast_to_ws: None, the empty string,
\* the two sessions and a session without a connection
BroadcastSessions == {PyNone, PyStr(""), PyStr("s1"), PyStr("s2"), PyStr("s3")}

\* the connections of the registry specification
RegistryTasks == {"w1", "w2", "w3"}

\* SpecRegistry: three connections over two sessions come, are rejected
\* a message and go, while _broadcast_to_ws is called
NextRegistry ==
    \/ \E w \in RegistryTasks, sid \in SessionIds : WsConnect(w, sid)
    \/ \E w \in RegistryTasks : WsDisconnect(w)
    \/ \E w \in RegistryTasks, ok \in BOOLEAN :
          \E inbound \in {i \in Inbound : i.type # "user.message"} :
             WsReject(w, inbound, ok)
    \/ \E w \in RegistryTasks : WsFlush(w)
    \/ \E session_id \in BroadcastSessions : BroadcastCall(session_id)
    \/ Broadcast(RegistryTasks)
    \/ Listen

SpecRegistry == Init /\ [][NextRegistry]_vars

\* SpecTracker: the heartbeat watcher and the passing of time
NextTracker ==
    \/ \E d \in TimeSteps : Elapse(d)
    \/ \E m \in HeartbeatMessages : Heartbeat(m)

SpecTracker == Init /\ [][NextTracker]_vars

\* the invocations C of _run_consolidation
Sweeper(C) ==
    \/ \E c \in C : TryLock(c)
    \/ \E c \in C : LockError(c)
    \/ \E c \in C, found \in SUBSET Keys, how \in {"complete", "partial", "error"} :
          ScanReturn(c, found, how)
    \/ \E c \in C, k \in Keys, ok \in BOOLEAN : Get(c, k, ok)
    \/ \E c \in C : LoopEnd(c)
    \/ \E c \in C, outcome \in {"ok", "insert_failed", "publish_failed"} :
          Episodic(c, outcome)
    \/ \E c \in C, ok \in BOOLEAN : Semantic(c, ok)
    \/ \E c \in C, ok \in BOOLEAN : Delete(c, ok)
    \/ \E c \in C, ok \in BOOLEAN : Expire(c, ok)
    \/ \E c \in C, ok \in BOOLEAN : Release(c, ok)

\* the expiries of the keys of the ephemeral space
Expiry ==
    \/ LockExpire
    \/ \E k \in Keys : KeyExpire(k)

\* SpecSweep: one instance sweeps, again and again, an ephemeral space of
\* up to two entries
InitSweep ==
    /\ InitGateway
    /\ InitTracker
    /\ \E W \in WorkingStores : InitSweeper(W)

NextSweep ==
    \/ Sweeper({"c1"})
    \/ Invoke("c1")
    \/ Expiry

SpecSweep == InitSweep /\ [][NextSweep]_vars

\* SpecBatch: the invocations of the model, called at the same time, run
\* once each
InitBatch ==
    /\ InitGateway
    /\ InitTracker
    /\ \E W \in {w \in WorkingStores : DOMAIN w \subseteq {"k1"}} :
          InitSweeper(W)

NextBatch ==
    \/ Sweeper(Sweeps)

SpecBatch == InitBatch /\ [][NextBatch]_vars

\* SpecStall: one sweep over a store whose calls return, fail or stall;
\* the invocation goes on whenever the call it waits for has returned
NextStall ==
    \/ Sweeper({"c1"})
    \/ Stall("c1")
    \/ Expiry

SpecStall == InitSweep /\ [][NextStall]_vars /\ WF_vars(Sweeper({"c1"}))

\* SpecExpiry: two instances sweep once each while the lock key can expire
NextExpiry ==
    \/ Sweeper({"c1", "c2"})
    \/ LockExpire

SpecExpiry == InitBatch /\ [][NextExpiry]_vars

(***************************************************************************)
(* Properties of the correlation table and its dispatcher                  *)
(***************************************************************************)
\* C1: first-writer-wins.  A future that holds a value A keeps A whatever
\* reply is dispatched next (the second resolve changes nothing and raises
\* nothing: no error is logged), and the value the waiter hands on is the
\* value the future holds: the response of the InputResponse over HTTP,
\* the text of the response.text message over the WebSocket.
C1_FirstWriterWins ==
    [][ /\ \A t \in Tasks :
              (future[t].state = "done" /\ future'[t].state = "done")
                  => future'[t] = future[t]
        /\ \A t \in Tasks :
              ( /\ sub.pc = "listen" /\ "data" \in DOMAIN message'
                /\ startswith_language_response(message'.channel)
                /\ message'.channel[3] \in DOMAIN pending_responses
                /\ pending_responses[message'.channel[3]] = t
                /\ future[t].state = "done" )
                  => (future'[t] = future[t] /\ error_logged' = error_logged
                      /\ sub'.pc = "handled")
        /\ \A h \in HttpTasks :
              ( /\ pc[h] = "await" /\ pc'[h] = "done"
                /\ future[h].state = "done" /\ future[h].result.t = "str" )
                  => (result'[h].response = future[h].result
                      /\ result'[h].error = PyNone)
        /\ \A w \in WsTasks :
              (pc[w] = "respond" /\ future[w].state = "done")
                  => \A i \in (Len(sent[w]) + 1)..Len(sent'[w]) :
                        sent'[w][i].type = "response.text"
                            => sent'[w][i].text = future[w].result
      ]_vars

\* C1 witness: a second reply for request id r, with a value B, has just
\* been handled while the slot of r holds another value A
C1_Witness ==
    /\ sub.pc = "handled"
    /\ "data" \in DOMAIN message
    /\ startswith_language_response(message.channel)
    /\ message.channel[3] \in DOMAIN pending_responses
    /\ future[pending_responses[message.channel[3]]].state = "done"
    /\ future[pending_responses[message.channel[3]]].result = PyStr("not-json")
    /\ message.data = "{\"request_id\": \"r2\", \"response\": \"hi\"}"

\* C2: every InputResponse handle_input returns has exactly one of response
\* and error set
C2_ExactlyOneOfResponseAndError ==
    \A h \in HttpTasks :
        result[h].kind = "returned"
            => ((result[h].response # PyNone) # (result[h].error # PyNone))

\* C3: when the wait for the reply ends with the future still pending (the
\* publish succeeded and no reply resolved the slot), the response deadline
\* has elapsed, handle_input returns {request_id, error: "timeout"} and the
\* request id is absent from the table
C3_ResponseTimeout ==
    [][ \A h \in HttpTasks :
          (pc[h] = "await" /\ pc'[h] # "await" /\ future[h].state = "pending")
              => /\ waited[h] = RESPONSE_TIMEOUT
                 /\ pc'[h] = "done"
                 /\ result'[h] = [kind |-> "returned",
                                  request_id |-> request_id[h],
                                  response |-> PyNone,
                                  error |-> PyStr("timeout")]
                 /\ request_id[h] \notin DOMAIN pending_responses'
      ]_vars

\* C3 witness: handle_input has just returned the timeout error
C3_Witness ==
    /\ pc["h1"] = "done"
    /\ result["h1"].error = PyStr("timeout")
    /\ result["h1"].request_id \in RequestIds
    /\ result["h1"].request_id \notin DOMAIN pending_responses

\* C4: every slot of the table belongs to a request whose handling has not
\* ended: once the handling has ended, on any exit path, the slot is gone
C4_NoSlotOutlivesItsRequest ==
    \A r \in DOMAIN pending_responses :
        pc[pending_responses[r]] \in {"fetch", "publish", "await", "respond"}

C8_RegisterLeavesExistingSlot ==
    [][ nreq' = nreq + 1
          => \A r \in DOMAIN pending_responses :
                /\ r \in DOMAIN pending_responses'
                /\ pending_responses'[r] = pending_responses[r]
      ]_vars

\* C9: a reply dispatched for a request id that is not in the table changes
\* neither the table nor any future, logs no error, and the subscriber goes
\* on to the next message
C9_LateReplyIsNoOp ==
    [][ ( /\ sub.pc = "listen"
          /\ "data" \in DOMAIN message'
          /\ message'.type \in {"message", "pmessage"}
          /\ startswith_language_response(message'.channel)
          /\ message'.channel[3] \notin DOMAIN pending_responses )
            => /\ pending_responses' = pending_responses
               /\ future' = future
               /\ error_logged' = error_logged
               /\ sub'.pc = "handled"
      ]_vars

\* C9 witness: a reply for an id that is not in the table has been handled
\* after a request has ended, while another request waits unresolved
C9_Witness ==
    /\ sub.pc = "handled"
    /\ "data" \in DOMAIN message
    /\ startswith_language_response(message.channel)
    /\ message.channel[3] \notin DOMAIN pending_responses
    /\ nreq = 2
    /\ pc["h1"] = "await"
    /\ future["h1"].state = "pending"

\* C10: no message ends the subscriber loop: after any message the loop is
\* at the end of its body or in a broadcast, a message without channel or
\* data changes no future and no slot, and once such an error has been
\* logged a reply for a registered, unresolved slot still resolves it
C10_LoopSurvivesMalformedMessages ==
    [][ /\ (sub.pc = "listen" /\ message' # NoMessage)
              => sub'.pc \in {"handled", "broadcast"}
        /\ ( /\ sub.pc = "listen"
             /\ message'.type \in {"message", "pmessage"}
             /\ ("channel" \notin DOMAIN message' \/ "data" \notin DOMAIN message') )
              => /\ future' = future
                 /\ pending_responses' = pending_responses
                 /\ error_logged'
        /\ \A r \in RequestIds :
              ( /\ error_logged
                /\ sub.pc = "listen"
                /\ message' = [type |-> "pmessage", channel |-> ReplyChannel(r),
                               data |-> "{\"request_id\": \"r2\", \"response\": \"hi\"}"]
                /\ r \in DOMAIN pending_responses
                /\ future[pending_responses[r]].state = "pending" )
                  => future'[pending_responses[r]] =
                        [state |-> "done", result |-> PyStr("hi")]
      ]_vars

\* C10 witness: an error has been logged for a malformed message and a
\* later reply has resolved the slot of the waiting request
C10_Witness ==
    /\ error_logged
    /\ sub.pc = "handled"
    /\ message = [type |-> "pmessage", channel |-> ReplyChannel("r1"),
                  data |-> "{\"request_id\": \"r2\", \"response\": \"hi\"}"]
    /\ pc["h1"] = "await"
    /\ request_id["h1"] = "r1"
    /\ future["h1"] = [state |-> "done", result |-> PyStr("hi")]

\* C11: while the subscriber is in a send of a broadcast that has not
\* completed, a reply for a request that waits for it can still be
\* dispatched: the dispatch of the reply on language.response.<r> is
\* possible for every registered, unresolved slot r
C11_RepliesDispatchedDuringBroadcast ==
    \A r \in DOMAIN pending_responses :
        ( /\ sub.pc = "broadcast"
          /\ pc[pending_responses[r]] = "await"
          /\ future[pending_responses[r]].state = "pending"
          /\ Suspended )
            => ENABLED Dispatch([type |-> "pmessage", channel |-> ReplyChannel(r),
                                 data |-> "not-json"])

\* C12: the memory fetch never fails a request.  Every step that ends the
\* fetch takes the request on to the publish, with its slot registered and
\* nothing returned; and when the fetch ends with no HTTP client, with an
\* exception, with a non-200 status or with the 1 s timeout, the
\* memory_context of the envelope that is published is the empty list
C12_FetchDegradesToEmptyContext ==
    [][ /\ \A t \in Tasks :
              (pc[t] = "fetch" /\ pc'[t] # "fetch")
                  => /\ pc'[t] = "publish"
                     /\ request_id'[t] = request_id[t]
                     /\ request_id[t] \in DOMAIN pending_responses'
                     /\ t \in HttpTasks => result'[t] = NoResult
        /\ \A t \in Tasks, hits \in HitLists :
           \A outcome \in {"no_client", "exception", "non200", "timeout"} :
              FetchReturn(t, outcome, hits)
                  => /\ memory_context'[t] = <<>>
                     /\ [request_id |-> request_id'[t],
                         session_id |-> body'[t].session_id,
                         text |-> body'[t].text,
                         memory_context |-> memory_context'[t]].memory_context = <<>>
      ]_vars

\* C12 witness: with a memory service whose 200 answers carry a content,
\* the fetch has ended at its 1 s deadline or before, the request is at the
\* publish and its memory_context is empty
C12_Witness ==
    /\ pc["h1"] = "publish"
    /\ memory_context["h1"] = <<>>
    /\ request_id["h1"] \in DOMAIN pending_responses
    /\ result["h1"] = NoResult

\* C13 as stated: from the call of handle_input to its return no more than
\* the response deadline (5 s) passes
C13_ReturnsWithinResponseDeadline ==
    \A h \in HttpTasks : latency[h] <= RESPONSE_TIMEOUT

\* C13 amended: from the call of handle_input to its return no more than
\* the sum of the three deadlines passes: 1 s for the memory fetch, 2 s for
\* the publish and 5 s for the reply
C13_ReturnsWithinSumOfDeadlines ==
    \A h \in HttpTasks :
        /\ latency[h] <= MEMORY_RETRIEVE_TIMEOUT + PUBLISH_TIMEOUT + RESPONSE_TIMEOUT
        /\ pc[h] = "fetch" => latency[h] <= MEMORY_RETRIEVE_TIMEOUT
        /\ pc[h] = "publish" => latency[h] <= MEMORY_RETRIEVE_TIMEOUT + PUBLISH_TIMEOUT

\* C13 witness: handle_input has returned the timeout error 8 s after it
\* was called
C13_Witness ==
    /\ pc["h1"] = "done"
    /\ result["h1"].error = PyStr("timeout")
    /\ latency["h1"] = 8

\* C14: when the handling of a user.message ends on a connection, without
\* a send on the connection having failed (the publish ended before its
\* deadline, or the handler is back at the receive), exactly one terminal
\* message, response.text or error, has been sent for its request id
C14_ExactlyOneTerminalMessage ==
    [][ \A w \in WsTasks :
          ( /\ pc[w] \in {"publish", "respond"}
            /\ \/ pc'[w] = "recv"
               \/ /\ pc[w] = "publish"
                  /\ waited[w] < PUBLISH_TIMEOUT
                  /\ pc'[w] = "closed" )
              => Cardinality({ i \in DOMAIN sent'[w] :
                                 /\ sent'[w][i].type \in {"response.text", "error"}
                                 /\ sent'[w][i].request_id = request_id[w] }) = 1
      ]_vars

\* C15: a step in which a heartbeat is processed (time stands still and
\* the sender's timestamp is the current time afterwards) removes from the
\* membership set and from the last-seen record every worker last seen
\* more than 60 s ago, and keeps every worker last seen 60 s ago or less,
\* with its timestamp; the sender is present afterwards
C15_EvictionAtSixtySeconds ==
    [][ (now' = now /\ \E a \in DOMAIN agent_last_seen' : agent_last_seen'[a] = now)
          => \A n \in Workers :
               /\ ( /\ n \in DOMAIN agent_last_seen
                    /\ now - agent_last_seen[n] > 60
                    /\ ~(n \in DOMAIN agent_last_seen' /\ agent_last_seen'[n] = now) )
                      => (n \notin active_agents' /\ n \notin DOMAIN agent_last_seen')
               /\ ( /\ n \in DOMAIN agent_last_seen
                    /\ now - agent_last_seen[n] <= 60 )
                      => /\ n \in active_agents'
                         /\ n \in DOMAIN agent_last_seen'
                         /\ agent_last_seen'[n] \in {agent_last_seen[n], now}
               /\ n \in DOMAIN agent_last_seen'
                      => (n \in active_agents' /\ now - agent_last_seen'[n] <= 60)
      ]_vars

\* C15 witness: the heartbeat of a1 at time 90 has evicted a3, last seen at
\* time 0, and has kept a2, last seen exactly 60 s before
C15_Witness ==
    /\ now = 90
    /\ stale_removed = {"a3"}
    /\ active_agents = {"a1", "a2"}
    /\ DOMAIN agent_last_seen = {"a1", "a2"}
    /\ agent_last_seen["a1"] = 90
    /\ agent_last_seen["a2"] = 30

\* C16: no step removes a worker of the membership set whose last
\* heartbeat is no older than 30 s when the step is taken: a worker that
\* heartbeats at least every 30 s is present in every state that follows
\* its first heartbeat, whatever the other workers send
C16_RegularWorkerStays ==
    [][ \A n \in Workers :
          ( /\ n \in active_agents
            /\ n \in DOMAIN agent_last_seen
            /\ now' - agent_last_seen[n] <= 30 )
              => (n \in active_agents' /\ n \in DOMAIN agent_last_seen')
      ]_vars

\* C16 witness: a1 has heartbeated at 0, 30, 60, 90 and 120 s at the
\* latest and is present at time 120, after a sweep triggered by a
\* heartbeat has evicted another worker
C16_Witness ==
    /\ now = 120
    /\ "a1" \in active_agents
    /\ agent_last_seen["a1"] = 120
    /\ stale_removed # {}
    /\ "a1" \notin stale_removed

(***************************************************************************)
(* Properties of the consolidation sweep                                   *)
(***************************************************************************)

\* the invocations that have scanned
executed == {c \in Sweeps : \E call \in calls[c] : call[1] = "scan"}

swept == {c \in Sweeps :
            /\ sweep[c].pc = "returned"
            /\ <<"scan", NoKey, "complete">> \in calls[c]
            /\ \A call \in calls[c] : call[3] \in {"ok", "complete"}}

\* C18: the threshold is strict.  A read of an entry of importance 0.70 or
\* less moves on to the next key and changes no store, a read of an entry
\* of importance 0.71 goes on to the episodic write; after a sweep with
\* working stores no entry above 0.7 is left in the ephemeral space, its
\* importance is in the episodic store, and the entries that are left have
\* no durable row, no delete, no expiry call and the TTL they were stored
\* with
C18_StrictThreshold ==
    /\ [][\A c \in Sweeps, k \in DOMAIN working :
            sweep[c].pc = "loop" /\ <<"get", k, "ok">> \in calls'[c] \ calls[c]
               => IF working[k].importance <= IMPORTANCE_THRESHOLD
                  THEN /\ sweep'[c] = Loop(sweep[c].keys \ {k})
                       /\ UNCHANGED <<working, episodic, semantic>>
                  ELSE /\ sweep'[c].pc = "episodic"
                       /\ sweep'[c].key = k]_vars
    /\ [](\A c \in swept :
            /\ \A k \in DOMAIN working :
                  /\ working[k].importance <= IMPORTANCE_THRESHOLD
                  /\ working[k].ttl = WORKING_MEMORY_TTL
                  /\ episodic[k] = <<>> /\ semantic[k] = <<>>
                  /\ \A call \in calls[c] :
                        call[2] = k => call[1] = "get"
            /\ \A k \in Keys :
                  <<"episodic", k, "ok">> \in calls[c]
                     => /\ k \notin DOMAIN working
                        /\ episodic[k] # <<>>
                        /\ \A i \in 1..Len(episodic[k]) :
                              episodic[k][i] > IMPORTANCE_THRESHOLD)

\* after a sweep with working stores over an entry of 0.71 and one of 0.70
\* the first is in the episodic store and gone, the second is as stored
C18_Witness ==
    /\ "c1" \in swept
    /\ <<"delete", "k1", "ok">> \in calls["c1"]
    /\ <<"get", "k2", "ok">> \in calls["c1"]
    /\ episodic["k1"] = <<71>>
    /\ DOMAIN working = {"k2"}
    /\ working["k2"] = Entry(70, WORKING_MEMORY_TTL)

\* C19: when the episodic write of a qualifying entry fails, the sweep
\* moves on to the next key and leaves the entry as it is: from then on no
\* step of the sweep changes or removes the entry, and the sweep makes no
\* semantic write, no delete and no expiry call for its key
C19_EpisodicFailureKeepsEntry ==
    /\ [][\A c \in Sweeps :
            sweep[c].pc = "episodic" /\ sweep'[c] # sweep[c] /\
            <<"episodic", sweep[c].key, "ok">> \notin calls'[c]
               => /\ sweep'[c] = Loop(sweep[c].keys)
                  /\ working' = working
                  /\ semantic' = semantic]_vars
    /\ [][\A c \in Sweeps, k \in DOMAIN working :
            (\E o \in {"insert_failed", "publish_failed"} :
                <<"episodic", k, o>> \in calls[c] /\ <<"episodic", k, o>> \in calls'[c])
            /\ sweep'[c] # sweep[c]
               => k \in DOMAIN working' /\ working'[k] = working[k]]_vars
    /\ [](\A c \in Sweeps, k \in Keys :
            (\E o \in {"insert_failed", "publish_failed"} :
                <<"episodic", k, o>> \in calls[c])
               => \A call \in calls[c] :
                     call[2] = k => call[1] \in {"get", "episodic"})

\* a sweep whose episodic write of k1 failed has returned: k1 is in the
\* ephemeral space as stored, and the lock release is the only delete
C19_Witness ==
    /\ sweep["c1"].pc = "returned"
    /\ <<"episodic", "k1", "insert_failed">> \in calls["c1"]
    /\ "k1" \in DOMAIN working
    /\ working["k1"] = Entry(71, WORKING_MEMORY_TTL)
    /\ episodic["k1"] = <<>>
    /\ \A call \in calls["c1"] : call[1] = "delete" => call[2] = LockKey

C21_FailedDeleteLeavesShortExpiry ==
    /\ [](FALLBACK_EXPIRY < CONSOLIDATION_INTERVAL)
    /\ [][\A c \in Sweeps :
            sweep[c].pc = "expire" /\ sweep'[c].pc # "expire" /\
            <<"delete", sweep[c].key, "error">> \in calls[c] /\
            sweep[c].key \in DOMAIN working'
               => working'[sweep[c].key].ttl = FALLBACK_EXPIRY]_vars
    /\ [][\A c \in Sweeps, k \in DOMAIN working :
            sweep[c].pc = "loop" /\ <<"get", k, "ok">> \in calls'[c] \ calls[c]
               => working[k].ttl # FALLBACK_EXPIRY]_vars

\* C22: a sweep that acquired the lock has deleted the lock key when
\* _run_consolidation returns, and a sweep whose scan or processing
\* raised ends by returning, not by raising
C22_LockReleasedAndNoRaise ==
    /\ [][\A c \in Sweeps :
            sweep[c].pc \notin {"called", "returned", "raised"} /\
            sweep'[c].pc = "returned"
               => <<"delete", LockKey, "ok">> \in calls'[c]]_vars
    /\ [][\A c \in Sweeps :
            sweep[c].pc \notin {"called", "returned", "raised"} /\
            sweep'[c].pc \in {"returned", "raised"} /\
            (\E call \in calls[c] :
                call[1] \in {"scan", "get"} /\ call[3] = "error")
               => sweep'[c].pc = "returned"]_vars

\* C23: an invocation whose set-if-absent finds the lock key present
\* returns in that step: it has made no scan, no durable write and no
\* delete, the lock key, the ephemeral space and the durable stores are as
\* they were, and it makes no call until it is invoked again
C23_NoLockNoWork ==
    /\ [][\A c \in Sweeps :
            sweep[c].pc = "called" /\ sweep'[c].pc \notin {"called", "raised"} /\
            lock # NoLock
               => /\ sweep'[c] = Returned
                  /\ calls'[c] = {}
                  /\ UNCHANGED <<lock, working, episodic, semantic>>]_vars
    /\ [][\A c \in Sweeps :
            sweep[c] = Returned /\ calls[c] = {} /\ sweep'[c].pc # "called"
               => sweep'[c] = Returned /\ calls'[c] = {}]_vars

\* the lock of another invocation is still there after an invocation that
\* did not get it has returned
C23_Witness ==
    /\ lock = "c1"
    /\ sweep["c1"].pc = "loop"
    /\ sweep["c2"] = Returned
    /\ calls["c2"] = {}

(***************************************************************************)
(* Properties of the connection registry and the broadcast                 *)
(***************************************************************************)

\* C24: when a connection ends, by a disconnect or by an error in its
\* loop, it is in no connection set any more, its session's key is gone if
\* no connection of the session is left, and every other connection, of
\* its session and of the others, is registered as before
C24_EndedConnectionIsDeregistered ==
    [][\A w \in WsTasks :
         pc[w] # "closed" /\ pc'[w] = "closed"
            => LET sid == body[w].session_id
               IN  /\ \A s \in DOMAIN ws_clients' : w \notin ws_clients'[s]
                   /\ sid \in DOMAIN ws_clients' => ws_clients'[sid] # {}
                   /\ DOMAIN ws_clients' \subseteq DOMAIN ws_clients
                   /\ \A s \in DOMAIN ws_clients :
                         /\ ws_clients[s] \ {w} # {} => s \in DOMAIN ws_clients'
                         /\ s # sid => s \in DOMAIN ws_clients'
                         /\ s \in DOMAIN ws_clients'
                               => ws_clients'[s] = ws_clients[s] \ {w}]_vars

\* w1 and w3 have ended: w2 of w1's session is still registered, and the
\* key of w3's session, which had no other connection, is gone
C24_Witness ==
    /\ pc["w1"] = "closed" /\ body["w1"].session_id = "s1"
    /\ pc["w3"] = "closed" /\ body["w3"].session_id = "s2"
    /\ pc["w2"] = "recv"
    /\ DOMAIN ws_clients = {"s1"}
    /\ ws_clients["s1"] = {"w2"}

\* C25: no session key of the registry maps to an empty connection set
C25_NoEmptyConnectionSet ==
    \A s \in DOMAIN ws_clients : ws_clients[s] # {}

\* C26: a broadcast called with a session_id targets the connections
\* registered under that session and no other, a broadcast called without
\* one targets every connection of every session; while it runs no target
\* is added, dropped or sent to twice, and a broadcast for a session never
\* sends to a connection registered under another session
C26_BroadcastTargeting ==
    /\ [][sub.pc = "listen" /\ sub'.pc \in {"broadcast", "handled"}
            => LET sid == sub'.session_id
               IN  /\ sub'.sends = {}
                   /\ sub'.targets =
                         IF sid = PyNone
                         THEN UNION {ws_clients[s] : s \in DOMAIN ws_clients}
                         ELSE IF sid.v \in DOMAIN ws_clients
                         THEN ws_clients[sid.v]
                         ELSE {}]_vars
    /\ [][sub.pc = "broadcast" /\ sub'.pc = "broadcast"
            => /\ sub'.session_id = sub.session_id
               /\ sub'.sends \cup sub'.targets = sub.sends \cup sub.targets
               /\ sub'.sends \cap sub'.targets = {}]_vars
    /\ [](sub.pc = "broadcast" /\ sub.session_id # PyNone
            => \A s \in (DOMAIN ws_clients) \ {sub.session_id.v} :
                  ws_clients[s] \cap (sub.sends \cup sub.targets) = {})

\* a broadcast for session s1 has sent to w1 and goes on to w2, the other
\* connection of s1, while w3 is registered under s2
C26_Witness ==
    /\ sub.pc = "broadcast"
    /\ sub.session_id = PyStr("s1")
    /\ sub.sends = {"w1"}
    /\ sub.targets = {"w2"}
    /\ ws_clients = [s \in {"s1", "s2"} |-> IF s = "s1" THEN {"w1", "w2"} ELSE {"w3"}]

\* C27: a broadcast ends by returning, whatever sends failed, after it has
\* sent to every target; the connections whose send failed are then in no
\* connection set, and every other connection is registered as before
C27_SendFailureIsIsolated ==
    /\ [][sub.pc = "broadcast"
            => /\ sub'.pc \in {"broadcast", "handled"}
               /\ sub'.pc = "handled"
                     => /\ sub'.targets = {}
                        /\ sub'.sends = sub.sends \cup sub.targets
                        /\ {d[2] : d \in sub'.dead} \subseteq sub'.sends
                        /\ DOMAIN ws_clients' = DOMAIN ws_clients
                        /\ \A d \in sub'.dead :
                              \A s \in DOMAIN ws_clients' : d[2] \notin ws_clients'[s]
                        /\ \A s \in DOMAIN ws_clients :
                              \A w \in ws_clients[s] :
                                 w \notin {d[2] : d \in sub'.dead}
                                    => w \in ws_clients'[s]]_vars
    /\ [][sub.pc = "broadcast" /\ sub'.pc = "broadcast"
            => /\ sub.dead \subseteq sub'.dead
               /\ sub'.targets = sub.targets \ sub'.sends
               /\ UNCHANGED ws_clients \/ sub' = sub]_vars

\* the first send of a broadcast to three connections failed: the two
\* others were sent to and are registered, the first is not
C27_Witness ==
    /\ sub.pc = "handled"
    /\ sub.sends = {"w1", "w2", "w3"}
    /\ sub.dead = {<<"s1", "w1">>}
    /\ ws_clients = [s \in {"s1", "s2"} |-> IF s = "s1" THEN {"w2"} ELSE {"w3"}]

(***************************************************************************)
(* Properties of the handling of inbound messages                          *)
(***************************************************************************)

\* C28: when a connection reads an inbound message whose type is not
\* user.message or whose trimmed text is empty or longer than 2000, no
\* slot is registered, no request is started and nothing goes on to the
\* publish; the connection is sent one error message and reads the next
\* inbound message, or, when that send raises, the connection ends with
\* nothing sent
C28_MalformedInboundIsRejected ==
    [][\A w \in WsTasks :
         raw[w] = NoRaw /\ raw'[w] # NoRaw /\
         ( \/ raw'[w].type # "user.message"
           \/ raw'[w].text.core = 0
           \/ raw'[w].text.core > 2000 )
            => /\ pending_responses' = pending_responses
               /\ future' = future
               /\ nreq' = nreq
               /\ request_id'[w] = NoId
               /\ pc'[w] \in {"recv", "closed"}
               /\ pc'[w] = "recv"
                     => /\ Len(sent'[w]) = 1
                        /\ sent'[w][1].type = "error"
                        /\ sent'[w][1].request_id = NoId
                        /\ ws_clients' = ws_clients
               /\ pc'[w] = "closed" => sent'[w] = <<>>]_vars

\* a user.message of 2001 characters has been answered with one error
\* message; the connection reads on and the table is empty
C28_Witness ==
    /\ pc["w1"] = "recv"
    /\ raw["w1"].type = "user.message"
    /\ raw["w1"].text = Text(0, 2001, 0)
    /\ Len(sent["w1"]) = 1
    /\ sent["w1"][1].type = "error"
    /\ redis
    /\ DOMAIN pending_responses = {}

\* C29: without a bus connection a call of handle_input ends at once with
\* the 503 outcome, and a well-formed user.message on a connection is
\* answered with one "Redis unavailable" error, after which the connection
\* reads on (or ends with nothing sent when that send raises); neither
\* registers a slot, makes a future or goes on to the fetch and the publish
C29_NoBusIsUnavailable ==
    /\ [][\A h \in HttpTasks :
            pc[h] = "idle" /\ pc'[h] # "idle" /\ ~redis
               => /\ pc'[h] = "done"
                  /\ result'[h].kind = "http503"
                  /\ result'[h].response = PyNone /\ result'[h].error = PyNone
                  /\ pending_responses' = pending_responses
                  /\ future' = future]_vars
    /\ [][\A w \in WsTasks :
            raw[w] = NoRaw /\ raw'[w] # NoRaw /\ ~redis /\
            raw'[w].type = "user.message" /\
            raw'[w].text.core > 0 /\ raw'[w].text.core <= 2000
               => /\ pending_responses' = pending_responses
                  /\ future' = future
                  /\ pc'[w] \in {"recv", "closed"}
                  /\ pc'[w] = "recv"
                        => /\ Len(sent'[w]) = 1
                           /\ sent'[w][1].type = "error"
                           /\ sent'[w][1].tag = "Redis unavailable"
                           /\ raw'[w].request_id # NoId
                                 => sent'[w][1].request_id = raw'[w].request_id
                           /\ ws_clients' = ws_clients
                  /\ pc'[w] = "closed" => sent'[w] = <<>>]_vars
    /\ [](~redis => DOMAIN pending_responses = {} /\
                    \A t \in Tasks : pc[t] \notin {"fetch", "publish", "await"})

\* without a bus a call of handle_input has got its 503 and, after it, a
\* user.message with the client's request id r1 its error message
C29_Witness ==
    /\ ~redis
    /\ nreq >= 1
    /\ pc["w1"] = "recv"
    /\ raw["w1"] = [type |-> "user.message", text |-> Text(1, 2000, 1),
                    request_id |-> "r1"]
    /\ sent["w1"] = <<Msg("error", "Redis unavailable", "r1", PyNone)>>

\* C30: from the moment the publish of a request's envelope to user.input
\* is started until the wait for the reply is over, the table holds the
\* slot of the request: the request id is a key, and its future is the
\* one the handler waits on
C30_SlotPresentAtPublish ==
    \A t \in Tasks :
        pc[t] \in {"publish", "await"}
           => /\ request_id[t] \in DOMAIN pending_responses
              /\ pending_responses[request_id[t]] = t

(***************************************************************************)
(* Properties of the sweeps over time and across instances                 *)
(***************************************************************************)

\* C31: whatever sweeps run and whatever store calls fail, the episodic
\* store holds at most one row for each working-memory key
C31_AtMostOneEpisodicRow ==
    \A k \in Keys : Len(episodic[k]) <= 1

\* C32: at no time are two invocations past the acquisition of the lock,
\* scanning or processing, also when the lock key can expire
C32_MutualExclusion ==
    Cardinality({c \in Sweeps :
                   sweep[c].pc \in {"scan", "loop", "episodic", "semantic",
                                    "delete", "expire"}}) <= 1

\* C40: the delete of the lock key at the end of an invocation removes
\* only a lock that this invocation's set-if-absent made
C40_ReleaseDeletesOwnLock ==
    [][\A c \in Sweeps :
         sweep[c].pc = "release" /\ sweep'[c].pc # "release" /\ lock' # lock
            => lock = c]_vars

\* C33: a sweep that has acquired the lock and scans eventually issues the
\* delete of the lock key, whatever the store does
C33_AcquiredLockIsEventuallyReleased ==
    \A c \in Sweeps :
        (sweep[c].pc = "scan")
           ~> (\E o \in {"ok", "error"} : <<"delete", LockKey, o>> \in calls[c])

\* C34: in a sweep the semantic write, the delete and the expiry call of a
\* key are issued only when the episodic write of that key has succeeded
\* before in the same sweep, the delete only after the semantic write and
\* the expiry call only after a failed delete; a sweep is at the semantic
\* write or the delete of a key only with that key's episodic write done
C34_EpisodicFirst ==
    /\ [][\A c \in Sweeps :
            \A call \in calls'[c] \ calls[c] :
               /\ call[1] \in {"semantic", "delete", "expire"} /\ call[2] # LockKey
                     => <<"episodic", call[2], "ok">> \in calls[c]
               /\ call[1] = "delete" /\ call[2] # LockKey
                     => \E o \in {"ok", "error"} : <<"semantic", call[2], o>> \in calls[c]
               /\ call[1] = "expire"
                     => <<"delete", call[2], "error">> \in calls[c]]_vars
    /\ [](\A c \in Sweeps :
            sweep[c].pc \in {"semantic", "delete", "expire"}
               => <<"episodic", sweep[c].key, "ok">> \in calls[c])

\* one sweep: k1 went from the episodic write through the semantic write
\* and a failed delete to the expiry call, k2's episodic write failed and
\* k2 got no further call
C34_Witness ==
    /\ sweep["c1"].pc = "returned"
    /\ {<<"episodic", "k1", "ok">>, <<"semantic", "k1", "ok">>,
        <<"delete", "k1", "error">>, <<"expire", "k1", "ok">>,
        <<"episodic", "k2", "insert_failed">>} \subseteq calls["c1"]
    /\ \A call \in calls["c1"] : call[2] = "k2" => call[1] \in {"get", "episodic"}


\* C35: A failure while handling one entry of a sweep (a value that is not
\* JSON, a key that vanished before the read, a failing episodic or
\* semantic write, a failing delete) leaves the loop running with the keys
\* that remain; and when a sweep whose scan was complete and whose reads all
\* returned is over, every qualifying entry still in the ephemeral space is
\* one whose own episodic write or own delete failed in this sweep.
C35_FailureIsolation ==
    /\ [][\A c \in Sweeps :
            /\ sweep[c].pc = "loop" /\ sweep'[c].pc # "stalled"
               /\ (\E k \in sweep[c].keys :
                     /\ <<"get", k, "ok">> \in calls'[c] \ calls[c]
                     /\ (k \notin DOMAIN working \/ working[k] = Unparsable))
               => sweep'[c].pc = "loop"
                  /\ (\E j \in sweep[c].keys : sweep'[c].keys = sweep[c].keys \ {j})
            /\ sweep[c].pc = "episodic"
               /\ (\E o \in {"insert_failed", "publish_failed"} :
                     <<"episodic", sweep[c].key, o>> \in calls'[c] \ calls[c])
               => sweep'[c].pc = "loop" /\ sweep'[c].keys = sweep[c].keys
            /\ sweep[c].pc = "semantic"
               /\ <<"semantic", sweep[c].key, "error">> \in calls'[c] \ calls[c]
               => sweep'[c].pc = "delete" /\ sweep'[c].keys = sweep[c].keys
            /\ sweep[c].pc = "delete"
               /\ <<"delete", sweep[c].key, "error">> \in calls'[c] \ calls[c]
               => sweep'[c].pc = "expire" /\ sweep'[c].keys = sweep[c].keys
            /\ sweep[c].pc = "expire" /\ sweep'[c].pc # "stalled"
               /\ sweep'[c] # sweep[c]
               => sweep'[c].pc = "loop" /\ sweep'[c].keys = sweep[c].keys]_vars
    /\ [](\A c \in Sweeps :
            /\ sweep[c].pc \in {"release", "returned", "raised"}
            /\ <<"scan", NoKey, "complete">> \in calls[c]
            /\ \A k \in Keys : <<"get", k, "error">> \notin calls[c]
            => \A k \in DOMAIN working :
                 working[k] # Unparsable
                 /\ working[k].importance > IMPORTANCE_THRESHOLD
                 => \/ <<"episodic", k, "insert_failed">> \in calls[c]
                    \/ <<"episodic", k, "publish_failed">> \in calls[c]
                    \/ <<"delete", k, "error">> \in calls[c])

\* the episodic write of k1 has failed and k2, handled after it in the same
\* sweep, has been promoted and is about to be removed
C35_Witness ==
    /\ sweep["c1"].pc = "delete"
    /\ sweep["c1"].key = "k2"
    /\ <<"episodic", "k1", "insert_failed">> \in calls["c1"]
    /\ <<"semantic", "k2", "ok">> \in calls["c1"]
    /\ "k1" \in DOMAIN working
    /\ Len(episodic["k2"]) = 1
    /\ Len(episodic["k1"]) = 0

C37_MembershipChangesOnlyOnHeartbeat ==
    [][ /\ \A n \in active_agents' \ active_agents :
             Heartbeat([type |-> "pmessage", channel |-> HeartbeatChannel(n)])
        /\ \A n \in active_agents \ active_agents' :
             /\ \E m \in HeartbeatMessages :
                  m.type = "pmessage" /\ "channel" \in DOMAIN m /\ Heartbeat(m)
             /\ now - agent_last_seen[n] > 60
        /\ now' # now
             => active_agents' = active_agents /\ agent_last_seen' = agent_last_seen
      ]_vars

\* a1 was last seen 124 s ago and no heartbeat has arrived since: it is
\* still in the membership set
C37_Witness ==
    /\ now = 124
    /\ active_agents = {"a1"}
    /\ agent_last_seen["a1"] = 0
    /\ stale_removed = {}

\* C38: In every state between two messages of the watcher the membership
\* set is the set of the keys of the last-seen record.
C38_MembershipIsLastSeenKeys == active_agents = DOMAIN agent_last_seen

\* a heartbeat has added a worker and evicted two others: the set and the
\* record both hold the sender alone
C38_Witness ==
    /\ Cardinality(stale_removed) = 2
    /\ Cardinality(active_agents) = 1
    /\ DOMAIN agent_last_seen = active_agents
    /\ \A n \in active_agents : agent_last_seen[n] = now

(***************************************************************************)
(* Properties of the slots of requests handled at the same time            *)
(***************************************************************************)
\* C39: No step of one request removes or replaces the slot of another
\* request that is in flight (between its registration and the end of its
\* wait): the entry of the table for the id of that request stays the slot
\* the request created; and while a request awaits its reply, the entry for
\* its id is its own slot.
C39_CleanupLeavesOtherSlots ==
    /\ [][\A u \in Tasks :
            /\ pc[u] \in {"fetch", "publish", "await"}
            /\ pc'[u] = pc[u]
            /\ request_id[u] \in DOMAIN pending_responses
            /\ pending_responses[request_id[u]] = u
            => /\ request_id[u] \in DOMAIN pending_responses'
               /\ pending_responses'[request_id[u]] = u]_vars
    /\ [](\A u \in Tasks :
            pc[u] = "await"
            => /\ request_id[u] \in DOMAIN pending_responses
               /\ pending_responses[request_id[u]] = u)

=============================================================================
